---- MODULE Spec2Model ----
(***************************************************************************)
(* Model of the ld_proto example programs:                                 *)
(*   - examples/server/main.go: detectLanguage and the DetectLanguage      *)
(*     handler of the reference server;                                    *)
(*   - examples/third_party_service/main.go: ProcessDocument and           *)
(*     BatchProcessDocuments;                                              *)
(*   - examples/client/main.go: the test phrases of the example client.    *)
(*                                                                         *)
(* A text is a sequence of one-character strings.  A confidence is the     *)
(* exact quotient of two small integers, kept as a reduced fraction        *)
(* [num, den]; float32 division of integers this small is monotone and     *)
(* keeps distinct fractions distinct, so comparisons are preserved.        *)
(***************************************************************************)
EXTENDS Integers, Sequences, FiniteSets, TLC

\* ------------------------------------------------------------------ bounds
MaxLen == 3            \* longest generated text, in characters
MaxBatch == 4          \* longest batch of documents

\* ------------------------------------------------------ characters, texts
\* The characters the generated texts are built from: letters that spell
\* "in" (en, de, it), "et" (fr, twice), "e" (it), "it" (en), "en" (es, fr),
\* an upper-case letter, and two kinds of white space.
Alphabet == {"i", "n", "e", "t", "E", " ", "\t"}

\* the white space strings.Fields splits on (unicode.IsSpace), as far as a
\* TLA+ string can spell it
WhiteSpace == {" ", "\t", "\n", "\r", "\f"}

IsSpace(c) == c \in WhiteSpace

\* the upper-case letters strings.ToLower maps, and their lower case: the
\* Latin alphabet and the two accented letters of the word lists
Upper == <<"A", "B", "C", "D", "E", "F", "G", "H", "I", "J", "K", "L", "M",
           "N", "O", "P", "Q", "R", "S", "T", "U", "V", "W", "X", "Y", "Z",
           "À", "Ê">>
Lower == <<"a", "b", "c", "d", "e", "f", "g", "h", "i", "j", "k", "l", "m",
           "n", "o", "p", "q", "r", "s", "t", "u", "v", "w", "x", "y", "z",
           "à", "ê">>

LowerChar(c) ==
    IF \E i \in 1..Len(Upper) : Upper[i] = c
    THEN Lower[CHOOSE i \in 1..Len(Upper) : Upper[i] = c]
    ELSE c

\* strings.ToLower
RECURSIVE ToLower(_)
ToLower(text) ==
    IF text = <<>> THEN <<>>
    ELSE <<LowerChar(Head(text))>> \o ToLower(Tail(text))

RECURSIVE FieldsAcc(_, _, _, _)
FieldsAcc(s, i, cur, out) ==
    IF i > Len(s)
    THEN IF cur = <<>> THEN out ELSE Append(out, cur)
    ELSE IF IsSpace(s[i])
         THEN FieldsAcc(s, i + 1, <<>>,
                        IF cur = <<>> THEN out ELSE Append(out, cur))
         ELSE FieldsAcc(s, i + 1, Append(cur, s[i]), out)

\* strings.Fields: the maximal runs of non-space characters, in order
Fields(s) == FieldsAcc(s, 1, <<>>, <<>>)

\* ------------------------------------------------------------- word lists
Langs == {"en", "es", "fr", "de", "it"}

languageWords == [
    en |-> <<<<"t", "h", "e">>,
             <<"a", "n", "d">>,
             <<"i", "s">>,
             <<"i", "n">>,
             <<"t", "o">>,
             <<"o", "f">>,
             <<"a">>,
             <<"t", "h", "a", "t">>,
             <<"i", "t">>,
             <<"w", "i", "t", "h">>>>,
    es |-> <<<<"e", "l">>,
             <<"l", "a">>,
             <<"d", "e">>,
             <<"q", "u", "e">>,
             <<"y">>,
             <<"a">>,
             <<"e", "n">>,
             <<"u", "n">>,
             <<"e", "s">>,
             <<"s", "e">>>>,
    fr |-> <<<<"l", "e">>,
             <<"d", "e">>,
             <<"e", "t">>,
             <<"à">>,
             <<"u", "n">>,
             <<"i", "l">>,
             <<"ê", "t", "r", "e">>,
             <<"e", "t">>,
             <<"e", "n">>,
             <<"a", "v", "o", "i", "r">>>>,
    de |-> <<<<"d", "e", "r">>,
             <<"d", "i", "e">>,
             <<"u", "n", "d">>,
             <<"i", "n">>,
             <<"d", "e", "n">>,
             <<"v", "o", "n">>,
             <<"z", "u">>,
             <<"d", "a", "s">>,
             <<"m", "i", "t">>,
             <<"s", "i", "c", "h">>>>,
    it |-> <<<<"i", "l">>,
             <<"d", "i">>,
             <<"c", "h", "e">>,
             <<"e">>,
             <<"l", "a">>,
             <<"p", "e", "r">>,
             <<"u", "n">>,
             <<"i", "n">>,
             <<"c", "o", "n">>,
             <<"d", "a">>>>
]

\* ------------------------------------------------------------ confidences
RECURSIVE GCD(_, _)
GCD(a, b) == IF b = 0 THEN a ELSE GCD(b, a % b)

\* float32(n) / float32(d), d > 0, as a reduced fraction
Ratio(n, d) == LET g == GCD(n, d) IN [num |-> n \div g, den |-> d \div g]

Zero == Ratio(0, 1)
One == Ratio(1, 1)

\* a > b on fractions
Gt(a, b) == a.num * b.den > b.num * a.den

\* a >= b on fractions
Ge(a, b) == a.num * b.den >= b.num * a.den

\* ------------------------------------------------------- detectLanguage
\* the number of entries of one language's list equal to the word: the
\* innermost loop runs scores[lang]++ once per equal entry
CountMatches(word, langWords) ==
    Cardinality({k \in 1..Len(langWords) : langWords[k] = word})

\* scores[lang]++, n times: a missing key reads as 0 and is created by the
\* first increment
Increment(scores, lang, n) ==
    IF n = 0 THEN scores
    ELSE IF lang \in DOMAIN scores
         THEN [scores EXCEPT ![lang] = @ + n]
         ELSE scores @@ (lang :> n)

\* the order in which this model visits the keys of languageWords: the
\* increments commute, so the order of the range does not change the scores
LangOrder == <<"en", "es", "fr", "de", "it">>

\* for lang, langWords := range languageWords
\* (the map after the first j languages)
RECURSIVE CountLangs(_, _, _)
CountLangs(scores, word, j) ==
    IF j = 0 THEN scores
    ELSE Increment(CountLangs(scores, word, j - 1), LangOrder[j],
                   CountMatches(word, languageWords[LangOrder[j]]))

\* for _, word := range words
\* (the map after the first i words)
RECURSIVE CountWords(_, _)
CountWords(words, i) ==
    IF i = 0 THEN <<>>
    ELSE CountLangs(CountWords(words, i - 1), words[i], Len(LangOrder))

\* the scores map after the counting loop, from make(map[string]int): it
\* has a key only for a language that scores[lang]++ touched
Scores(words) == CountWords(words, Len(words))

\* the orders in which a range over a map with key set S can visit the keys
Orders(S) ==
    {o \in [1..Cardinality(S) -> S] : \A i, j \in DOMAIN o : i # j => o[i] # o[j]}

DefaultLangEmpty == ""

\* bestLang := "en" // default
DefaultLang == "en"

RECURSIVE FindBestKeepsFirstScore(_, _, _, _, _)
FindBestKeepsFirstScore(scores, order, i, bestLang, bestScore) ==
    IF i > Len(order) THEN [lang |-> bestLang, score |-> bestScore]
    ELSE IF scores[order[i]] > 0
         THEN FindBestKeepsFirstScore(scores, order, i + 1, order[i], scores[order[i]])
         ELSE FindBestKeepsFirstScore(scores, order, i + 1, bestLang, bestScore)

\* the best-match loop, visiting the keys of scores in the given order
RECURSIVE FindBest(_, _, _, _, _)
FindBest(scores, order, i, bestLang, bestScore) ==
    IF i > Len(order) THEN [lang |-> bestLang, score |-> bestScore]
    ELSE IF scores[order[i]] > bestScore
         THEN FindBest(scores, order, i + 1, order[i], scores[order[i]])
         ELSE FindBest(scores, order, i + 1, bestLang, bestScore)

ConfidenceUnclamped(score, totalWords) == Ratio(score, totalWords)

\* confidence := float32(bestScore) / float32(totalWords), clamped to 1.0
Confidence(score, totalWords) ==
    LET c == Ratio(score, totalWords) IN IF Gt(c, One) THEN One ELSE c

AltConfidenceIntegerDivision(score, totalWords) ==
    LET c == Ratio(score \div totalWords, 1) IN IF Gt(c, One) THEN One ELSE c

\* altConfidence := float32(score) / float32(totalWords), clamped to 1.0
AltConfidence(score, totalWords) ==
    LET c == Ratio(score, totalWords) IN IF Gt(c, One) THEN One ELSE c

IsAlternativeAnyLang(lang, score, bestLang) == score > 0

\* if lang != bestLang && score > 0
IsAlternative(lang, score, bestLang) == lang # bestLang /\ score > 0

\* the alternatives loop, visiting the keys of scores in the given order
RECURSIVE Alternatives(_, _, _, _, _)
Alternatives(scores, order, i, bestLang, totalWords) ==
    IF i > Len(order) THEN <<>>
    ELSE LET lang == order[i]
             rest == Alternatives(scores, order, i + 1, bestLang, totalWords)
         IN IF IsAlternative(lang, scores[lang], bestLang)
            THEN <<[language_code |-> lang,
                    confidence |-> AltConfidence(scores[lang], totalWords)]>>
                 \o rest
            ELSE rest

NoWordsResultDefault ==
    [language_code |-> DefaultLang, confidence |-> Zero, alternatives |-> <<>>]

\* return "unknown", 0.0, nil
NoWordsResult ==
    [language_code |-> "unknown", confidence |-> Zero, alternatives |-> <<>>]

\* detectLanguage from line 42 on: the result for the scores and the word
\* count, given the best match the first range over scores found
DetectResult(scores, totalWords, best, o2) ==
    IF totalWords = 0 THEN NoWordsResult
    ELSE [language_code |-> best.lang,
          confidence |-> Confidence(best.score, totalWords),
          alternatives |-> Alternatives(scores, o2, 1, best.lang, totalWords)]

\* detectLanguage from line 27 on, for the words of the lower-cased text
DetectWords(words, scores, o1, o2) ==
    DetectResult(scores, Len(words), FindBest(scores, o1, 1, DefaultLang, 0), o2)

\* the results of detectLanguage from line 27 on, over the orders in which
\* the two ranges over the scores map can visit its keys
DetectOutcomes(words, scores, orders) ==
    {DetectWords(words, scores, o1, o2) : o1 \in orders, o2 \in orders}

\* detectLanguage(text): the set of results the call can return
detectLanguage(text) ==
    DetectOutcomes(Fields(ToLower(text)), Scores(Fields(ToLower(text))),
                   Orders(DOMAIN Scores(Fields(ToLower(text)))))

\* ------------------------------------------------------------------- state
VARIABLES
    req,        \* the DetectLanguageRequest being served
    resp,       \* the response the caller received last (NoResp: none, or error)
    prev,       \* the response the caller received before that one
    err,        \* the error the caller received last (NoCall: no call made yet)
    documents,  \* BatchProcessDocuments: the input documents
    idx,        \* BatchProcessDocuments: position of the range loop
    results,    \* BatchProcessDocuments: the results slice
    failed,     \* the positions whose DetectLanguage call returned an error
    pc          \* "serve": server runs; "loop", "done": batch in progress, returned

vars == <<req, resp, prev, err, documents, idx, results, failed, pc>>

NoResp == [none |-> TRUE]

\* a nil error
NilError == "nil"

\* the caller has not called yet, so it holds no error value
NoCall == "no call"

\* the error the gRPC client returns when the call did not complete
TransportError == "transport error"

\* the zero value of pb.DetectLanguageRequest
NoRequest == [text |-> <<>>, document_id |-> "", metadata |-> <<>>]

\* ------------------------------------------------------------ the client
HelloWorld == <<"H", "e", "l", "l", "o", ",", " ", "w", "o", "r", "l", "d", "!">>
HolaMundo == <<"H", "o", "l", "a", ",", " ", "m", "u", "n", "d", "o", "!">>
BonjourLeMonde == <<"B", "o", "n", "j", "o", "u", "r", " ", "l", "e", " ",
                    "m", "o", "n", "d", "e", "!">>
HalloWelt == <<"H", "a", "l", "l", "o", " ", "W", "e", "l", "t", "!">>
CiaoMondo == <<"C", "i", "a", "o", " ", "m", "o", "n", "d", "o", "!">>

\* the example client's test cases: text and expected language
testCases == <<[text |-> HelloWorld, expected |-> "en"],
               [text |-> HolaMundo, expected |-> "es"],
               [text |-> BonjourLeMonde, expected |-> "fr"],
               [text |-> HalloWelt, expected |-> "de"],
               [text |-> CiaoMondo, expected |-> "it"]>>

\* every text of at most MaxLen characters over Alphabet
BoundedTexts == UNION {[1..n -> Alphabet] : n \in 0..MaxLen}

\* a longer text: fr scores 4 on 3 words, and en, de, it score 1 each
EtEtIn == <<"e", "t", " ", "E", "t", " ", "i", "n">>

Texts == BoundedTexts \cup {testCases[i].text : i \in 1..Len(testCases)}
                      \cup {EtEtIn}

\* document ids a caller supplies: absent (empty) or not
DocumentIds == {"", "doc-123"}

\* request metadata a caller supplies: none, or the example client's map
ClientMetadata ==
    {<<>>, [source |-> "example_client", timestamp |-> "now"]}

Requests ==
    {[text |-> t, document_id |-> d, metadata |-> m] :
        t \in Texts, d \in DocumentIds, m \in ClientMetadata}

\* ------------------------------------------------------------ the server
\* time.Since(start) in milliseconds: the wall clock decides
ProcessingTimes == {0, 1}

DropDocumentId(r) == ""

\* DocumentId: req.DocumentId
EchoDocumentId(r) == r.document_id

\* the response server.DetectLanguage builds for request r when
\* detectLanguage returned d and the handler took ms
DetectLanguageResponse(r, d, ms) ==
       [language_code |-> d.language_code,
        confidence |-> d.confidence,
        alternatives |-> d.alternatives,
        document_id |-> EchoDocumentId(r),
        metadata |-> [processing_time_ms |-> ms,
                      service_version |-> "1.0.0",
                      model_version |-> "simple-word-based-v1.0",
                      provider |-> "ld_proto_example"]]

DetectLanguageErrorIfUncertain(r) ==
    IF r.language_code = "unknown" \/ r.confidence = Zero
    THEN "uncertain" ELSE NilError

\* the error server.DetectLanguage returns next to response r: the handler's
\* only return statement is `return &pb.DetectLanguageResponse{...}, nil`
DetectLanguageError(r) == NilError

\* server.DetectLanguage: the responses the handler can return to request r
DetectLanguageResponses(r) ==
    {DetectLanguageResponse(r, d, ms) :
        d \in detectLanguage(r.text), ms \in ProcessingTimes}

Init ==
    /\ req \in Requests
    /\ resp = NoResp
    /\ prev = NoResp
    /\ err = NoCall
    /\ documents = <<>>
    /\ idx = 1
    /\ results = <<>>
    /\ failed = {}
    /\ pc = "serve"

\* the caller issues req (again) and the server's handler answers it
DetectLanguage ==
    /\ pc = "serve"
    /\ resp' \in DetectLanguageResponses(req)
    /\ err' = DetectLanguageError(resp')
    /\ prev' = resp
    /\ UNCHANGED <<req, documents, idx, results, failed, pc>>

Next == DetectLanguage

Spec == Init /\ [][Next]_vars

\* --------------------------------------------- the third-party service
\* the request ProcessDocument builds for a document
ProcessDocumentRequest(content, docID) ==
    [text |-> content,
     document_id |-> docID,
     metadata |-> [service |-> "third_party_service",
                   version |-> "1.0.0",
                   timestamp |-> "now",
                   content_len |-> Len(content)]]

\* Convert alternatives
RECURSIVE ConvertAlternatives(_, _)
ConvertAlternatives(alts, i) ==
    IF i > Len(alts) THEN <<>>
    ELSE <<[Language |-> alts[i].language_code,
            Confidence |-> alts[i].confidence]>>
         \o ConvertAlternatives(alts, i + 1)

\* the DocumentInfo ProcessDocument returns for response r
DocumentInfo(content, docID, r) ==
    [ID |-> docID,
     Content |-> content,
     Language |-> r.language_code,
     Confidence |-> r.confidence,
     Alternatives |-> ConvertAlternatives(r.alternatives, 1),
     ProcessingTime |-> r.metadata.processing_time_ms,
     ServiceVersion |-> r.metadata.service_version,
     ModelVersion |-> r.metadata.model_version,
     Provider |-> r.metadata.provider]

\* documents a batch is made of: a three-way tie, a double match, no text
DocumentPool ==
    {[ID |-> "doc-002", Content |-> <<"i", "n">>],
     [ID |-> "doc-003", Content |-> <<"e", "t">>],
     [ID |-> "", Content |-> <<>>]}

BatchInputs == UNION {[1..n -> DocumentPool] : n \in 0..MaxBatch}

\* BatchProcessDocuments is called with a slice of documents
InitBatch ==
    /\ req = NoRequest
    /\ resp = NoResp
    /\ prev = NoResp
    /\ err = NoCall
    /\ documents \in BatchInputs
    /\ idx = 1
    /\ results = <<>>
    /\ failed = {}
    /\ pc = "loop"

AfterFailureAbort(i, n) == n + 1

\* if err != nil { log.Printf(...); continue }: the loop goes on with the
\* next of the n documents
AfterFailure(i, n) == i + 1

\* one iteration of the loop: ProcessDocument's call succeeds
ProcessDocumentOk ==
    /\ pc = "loop"
    /\ idx <= Len(documents)
    /\ req' = ProcessDocumentRequest(documents[idx].Content, documents[idx].ID)
    /\ resp' \in DetectLanguageResponses(req')
    /\ results' = Append(results, DocumentInfo(documents[idx].Content,
                                                documents[idx].ID, resp'))
    /\ err' = DetectLanguageError(resp')
    /\ prev' = resp
    /\ idx' = idx + 1
    /\ UNCHANGED <<documents, failed, pc>>

\* one iteration of the loop: the DetectLanguage call returns an error
ProcessDocumentErr ==
    /\ pc = "loop"
    /\ idx <= Len(documents)
    /\ req' = ProcessDocumentRequest(documents[idx].Content, documents[idx].ID)
    /\ resp' = NoResp
    /\ err' = TransportError
    /\ prev' = resp
    /\ failed' = failed \cup {idx}
    /\ idx' = AfterFailure(idx, Len(documents))
    /\ UNCHANGED <<documents, results, pc>>

\* return results, nil
BatchReturn ==
    /\ pc = "loop"
    /\ idx > Len(documents)
    /\ pc' = "done"
    /\ UNCHANGED <<req, resp, prev, err, documents, idx, results, failed>>

NextBatch == ProcessDocumentOk \/ ProcessDocumentErr \/ BatchReturn

SpecBatch == InitBatch /\ [][NextBatch]_vars

\* ------------------------------------------------------------ properties
\* the words of a text as detectLanguage sees them
WordsOf(text) == Fields(ToLower(text))

\* no word of the text equals any entry of any language's list
NoSignal(text) ==
    \A i \in 1..Len(WordsOf(text)) : \A l \in Langs :
        \A k \in 1..Len(languageWords[l]) : languageWords[l][k] # WordsOf(text)[i]

\* the text is empty or has white space only
IsBlank(text) == \A i \in 1..Len(text) : text[i] \in WhiteSpace

\* 0.0 <= c <= 1.0
InUnitInterval(c) == Ge(c, Zero) /\ Ge(One, c)

\* C1: two responses to the identical request carry the same language_code
\* and the same confidence.
C1_Idempotent ==
    (resp # NoResp /\ prev # NoResp) =>
        /\ resp.language_code = prev.language_code
        /\ resp.confidence = prev.confidence

\* C2: for "Hello, world!" the response has language_code "en" and a
\* confidence strictly greater than 0.0.
C2_HelloWorld ==
    (resp # NoResp /\ req.text = HelloWorld) =>
        /\ resp.language_code = "en"
        /\ Gt(resp.confidence, Zero)

\* C3: for each of the client's five test phrases the response carries the
\* language the client expects.
C3_TestCases ==
    \A i \in 1..Len(testCases) :
        (resp # NoResp /\ req.text = testCases[i].text) =>
            resp.language_code = testCases[i].expected

\* C4: the confidence of every response and of each of its alternatives
\* lies in [0.0, 1.0], also when a match count exceeds the word count.
C4_ConfidenceInRange ==
    resp # NoResp =>
        /\ InUnitInterval(resp.confidence)
        /\ \A i \in 1..Len(resp.alternatives) :
              InUnitInterval(resp.alternatives[i].confidence)

\* C4 witness: "et Et in" has 3 words and fr scores 4; the response is fr
\* with confidence clamped to 1.0, and three alternatives.
C4_Witness ==
    /\ resp # NoResp
    /\ req.text = EtEtIn
    /\ resp.language_code = "fr"
    /\ resp.confidence = One
    /\ Len(resp.alternatives) = 3

\* C5: when no word of the text is in any list, the response has
\* language_code "unknown" and confidence 0.0.
C5_NoSignalUnknown ==
    (resp # NoResp /\ NoSignal(req.text)) =>
        /\ resp.language_code = "unknown"
        /\ resp.confidence = Zero

\* C6: the response's document_id equals the request's document_id.
C6_DocumentIdEcho ==
    resp # NoResp => resp.document_id = req.document_id

\* C6 witness: a response to a request with an empty document_id, a text
\* with words and metadata.
C6_Witness ==
    /\ resp # NoResp
    /\ req.document_id = ""
    /\ resp.document_id = ""
    /\ WordsOf(req.text) # <<>>
    /\ req.metadata # <<>>

\* C7: for an empty or white-space-only text the response is "unknown",
\* confidence 0.0, no alternatives.
C7_BlankUnknown ==
    (resp # NoResp /\ IsBlank(req.text)) =>
        /\ resp.language_code = "unknown"
        /\ resp.confidence = Zero
        /\ resp.alternatives = <<>>

\* C7 witness: a response to a text of a space and a tab.
C7_Witness ==
    /\ resp # NoResp
    /\ req.text = <<" ", "\t">>
    /\ resp.language_code = "unknown"

\* C8: no alternative of a response has the primary language_code.
C8_AlternativesExcludePrimary ==
    resp # NoResp =>
        \A i \in 1..Len(resp.alternatives) :
            resp.alternatives[i].language_code # resp.language_code

\* C8 witness: a response with two alternatives, for a text with a
\* three-way tie.
C8_Witness ==
    /\ resp # NoResp
    /\ req.text = <<"i", "n">>
    /\ Len(resp.alternatives) = 2

\* C9: language_code is never empty: it is one of en, es, fr, de, it, or
\* "unknown".
C9_LanguageCodeRecognized ==
    resp # NoResp =>
        /\ resp.language_code # ""
        /\ resp.language_code \in Langs \cup {"unknown"}

\* C9 witness: a response to a text with words of which none matched, so
\* the best-match loop never assigned bestLang.
C9_Witness ==
    /\ resp # NoResp
    /\ WordsOf(req.text) # <<>>
    /\ NoSignal(req.text)
    /\ resp.language_code = "en"

\* the position in documents of the k-th document whose call did not fail
NthSucceeded(k) ==
    CHOOSE i \in 1..Len(documents) :
        /\ i \notin failed
        /\ Cardinality({j \in 1..i : j \notin failed}) = k

\* C10: when BatchProcessDocuments returns, results holds exactly the
\* DocumentInfo of the documents whose call did not fail, in input order:
\* N - |F| results for N documents with failures F.
C10_BatchReturnsSucceeded ==
    pc = "done" =>
        /\ failed \subseteq 1..Len(documents)
        /\ Len(results) = Len(documents) - Cardinality(failed)
        /\ \A k \in 1..Len(results) :
              /\ results[k].ID = documents[NthSucceeded(k)].ID
              /\ results[k].Content = documents[NthSucceeded(k)].Content
              /\ results[k].Language \in Langs \cup {"unknown"}

\* C10 witness: a batch of 4 returned 3 results; the second call failed and
\* the documents after it were still processed.
C10_Witness ==
    /\ pc = "done"
    /\ Len(documents) = 4
    /\ failed = {2}
    /\ Len(results) = 3
    /\ results[2].ID = documents[3].ID
    /\ results[3].ID = documents[4].ID

\* C11: every call of the server's handler returns a response and a nil
\* error, whatever the text: empty, without a matching word, or tied.
C11_NeverErrorOnUncertainty ==
    (pc = "serve" /\ err # NoCall) => (err = NilError /\ resp # NoResp)

\* C11 witness: the handler answered a text with words of which none
\* matched, with confidence 0.0 and a nil error.
C11_Witness ==
    /\ pc = "serve"
    /\ err = NilError
    /\ resp # NoResp
    /\ WordsOf(req.text) # <<>>
    /\ NoSignal(req.text)
    /\ resp.confidence = Zero

\* the number of pairs of a word and an equal entry of a language's list
MatchCountIn(words, langWords) ==
    Cardinality({p \in (1..Len(words)) \X (1..Len(langWords)) :
                    words[p[1]] = langWords[p[2]]})

\* the match count of every language for the words of a text
MatchCountsIn(words) ==
    ("en" :> MatchCountIn(words, languageWords["en"]))
    @@ ("es" :> MatchCountIn(words, languageWords["es"]))
    @@ ("fr" :> MatchCountIn(words, languageWords["fr"]))
    @@ ("de" :> MatchCountIn(words, languageWords["de"]))
    @@ ("it" :> MatchCountIn(words, languageWords["it"]))

\* the match count of a language for a text
MatchCount(lang, text) == MatchCountIn(WordsOf(text), languageWords[lang])

\* count / total, and 1.0 when that is more than 1.0
ClampedShare(count, total) ==
    IF count > total THEN One ELSE Ratio(count, total)

\* the languages that are to be alternatives, given every language's match
\* count and the primary language
ExpectedAlternatives(counts, primary) ==
    {l \in Langs : counts[l] > 0 /\ l # primary}

\* the alternatives of response r are as C12 says, for a text of total
\* words with the given match counts
AlternativesExact(r, counts, total) ==
    /\ {r.alternatives[i].language_code : i \in 1..Len(r.alternatives)}
          = ExpectedAlternatives(counts, r.language_code)
    /\ Len(r.alternatives) = Cardinality(ExpectedAlternatives(counts, r.language_code))
    /\ \A i \in 1..Len(r.alternatives) :
          r.alternatives[i].confidence
            = ClampedShare(counts[r.alternatives[i].language_code], total)

\* C12: for a text with at least one word, alternatives has exactly one
\* entry per language with a positive match count other than the primary,
\* and no other entry; an entry's confidence is the language's match count
\* over the word count, clamped to 1.0.
C12_AlternativesExact ==
    (resp # NoResp /\ Len(WordsOf(req.text)) >= 1) =>
        AlternativesExact(resp, MatchCountsIn(WordsOf(req.text)),
                          Len(WordsOf(req.text)))

\* C12 witness: two responses to "et Et in" with the same primary carry the
\* same three alternatives, of confidence 1/3, in different orders.
C12_Witness ==
    /\ resp # NoResp
    /\ prev # NoResp
    /\ req.text = EtEtIn
    /\ resp.language_code = prev.language_code
    /\ Len(resp.alternatives) = 3
    /\ resp.alternatives[1].confidence = Ratio(1, 3)
    /\ resp.alternatives # prev.alternatives

\* the primary of response r is a best one, as C13 says, for a text with
\* the given match counts
PrimaryIsBest(r, counts) ==
    /\ \A i \in 1..Len(r.alternatives) :
          Ge(r.confidence, r.alternatives[i].confidence)
    /\ (\E l \in Langs : counts[l] > 0) =>
          /\ r.language_code \in Langs
          /\ \A l \in Langs : counts[l] <= counts[r.language_code]

\* C13: the primary confidence is at least the confidence of every
\* alternative, and when some language has a positive match count the
\* primary language has the largest match count of all languages.
C13_PrimaryIsBest ==
    resp # NoResp => PrimaryIsBest(resp, MatchCountsIn(WordsOf(req.text)))

\* C13 witness: for "et Et in" the primary is fr, the one language of match
\* count 4, and an alternative of strictly smaller confidence exists.
C13_Witness ==
    /\ resp # NoResp
    /\ req.text = EtEtIn
    /\ MatchCount("fr", req.text) = 4
    /\ MatchCount("en", req.text) = 1
    /\ resp.language_code = "fr"
    /\ \E i \in 1..Len(resp.alternatives) :
          Gt(resp.confidence, resp.alternatives[i].confidence)

====
